---- MODULE Spec2Model ----
(***************************************************************************)
(* Basketball stat clicker (src/app.py): the roster, the per-player stat   *)
(* counters, the selected index and the undo history kept in the session   *)
(* state, the handlers that change them, and the box-score projection.     *)
(*                                                                         *)
(* Text (names, numbers, CSV cells, labels) is a sequence of one-character *)
(* strings, so that strip(), lower() and str() are computed.  Indices are  *)
(* Python's (0-based); roster[i] of the source is roster[i + 1] here.      *)
(* An optional value is a sequence of length at most one: None is << >>    *)
(* and the value v is << v >>.                                             *)
(*                                                                         *)
(* Spec takes one whole run of the script per user event, with the state   *)
(* of the widgets; ImportSpec applies the import handler alone to a wider  *)
(* set of files.                                                           *)
(***************************************************************************)
EXTENDS Integers, Sequences, FiniteSets, TLC

VARIABLES
  roster,        \* st.session_state.roster
  selected,      \* st.session_state.selected
  action_stack,  \* st.session_state.action_stack
  msg,           \* the messages (st.error, st.success, st.info, st.warning) the
                 \* last script run has shown, in order
  event,         \* history: the last user event handled and its input
  pre,           \* history: the roster and the undo history before the stat
                 \* action that a following undo is to reverse, else None
  snaps,         \* history: for each stat action since the last removal,
                 \* reset, clear or import that is not undone yet, in order,
                 \* its player as it was before the action
  upload,        \* the file held by the file uploader, or None
  dataframe,     \* the box score table the last script run has displayed, or
                 \* None if that run ended before st.dataframe
  selectbox      \* the "Player" selectbox the last script run has made: its
                 \* options, its index argument and its value, or None

vars == <<roster, selected, action_stack, msg, event, pre, snaps, upload, dataframe, selectbox>>

\* ------------------------------------------------------------------ bounds
MaxPlayers == 2
MaxTotal == 2

\* ------------------------------------------------------------ basic values
None == << >>

Some(v) == << v >>

Max(a, b) == IF a >= b THEN a ELSE b

Min(a, b) == IF a <= b THEN a ELSE b

EXPORT_COLUMNS == <<"PTS", "REB", "AST", "2PM", "2PA", "3PM", "3PA", "STL", "BLK", "TOV">>

BUTTONS ==
  << [label |-> "2PM",     key |-> "2PM", delta |-> 1, implies |-> Some("2PA")],
     [label |-> "2P Miss", key |-> "2PA", delta |-> 1, implies |-> None],
     [label |-> "3PM",     key |-> "3PM", delta |-> 1, implies |-> Some("3PA")],
     [label |-> "3P Miss", key |-> "3PA", delta |-> 1, implies |-> None],
     [label |-> "REB",     key |-> "REB", delta |-> 1, implies |-> None],
     [label |-> "AST",     key |-> "AST", delta |-> 1, implies |-> None],
     [label |-> "STL",     key |-> "STL", delta |-> 1, implies |-> None],
     [label |-> "BLK",     key |-> "BLK", delta |-> 1, implies |-> None],
     [label |-> "TOV",     key |-> "TOV", delta |-> 1, implies |-> None] >>

\* -------------------------------------------------------------------- text
\* the characters str.strip() removes, those for which str.isspace() holds:
\* space, \t, \n, \r, \f, then U+000B, U+001C to U+001F, U+0085, U+00A0 and
\* U+1680.  (The others, U+2000 to U+200A, U+2028, U+2029, U+202F, U+205F and
\* U+3000, cannot be written in a string here; text is taken not to hold them.)
Whitespace ==
  {" ", "\t", "\n", "\r", "\f",
   "", "", "", "", "", "", " ", " "}

RECURSIVE LStrip(_)
LStrip(t) == IF t # << >> /\ Head(t) \in Whitespace THEN LStrip(Tail(t)) ELSE t

RECURSIVE RStrip(_)
RStrip(t) ==
  IF t # << >> /\ t[Len(t)] \in Whitespace THEN RStrip(SubSeq(t, 1, Len(t) - 1)) ELSE t

\* str.strip()
Strip(t) == RStrip(LStrip(t))

UpperLetters == <<"A", "B", "C", "D", "E", "F", "G", "H", "I", "J", "K", "L", "M",
                  "N", "O", "P", "Q", "R", "S", "T", "U", "V", "W", "X", "Y", "Z">>

LowerLetters == <<"a", "b", "c", "d", "e", "f", "g", "h", "i", "j", "k", "l", "m",
                  "n", "o", "p", "q", "r", "s", "t", "u", "v", "w", "x", "y", "z">>

LowerChar(c) ==
  IF \E i \in 1..26 : UpperLetters[i] = c
  THEN LowerLetters[CHOOSE i \in 1..26 : UpperLetters[i] = c]
  ELSE c

\* str.lower()
Lower(t) == [i \in 1..Len(t) |-> LowerChar(t[i])]

\* list.index(x): the first 0-based position of x in the list
IndexOf(list, x) == (CHOOSE i \in 1..Len(list) :
                       list[i] = x /\ \A j \in 1..(i - 1) : list[j] # x) - 1

\* ------------------------------------------------------------ stat engine
\* dict.get(key, 0)
Get(stats, key) == IF key \in DOMAIN stats THEN stats[key] ELSE 0

\* stats[key] = v
Put(stats, key, v) == [k \in (DOMAIN stats) \cup {key} |-> IF k = key THEN v ELSE stats[k]]

blank_stats ==
  [k \in {EXPORT_COLUMNS[i] : i \in {j \in 1..Len(EXPORT_COLUMNS) : EXPORT_COLUMNS[j] # "PTS"}}
     |-> 0]

\* mutant of points: a made three counted as two points
points_TwoEach(stats) == 2 * Get(stats, "2PM") + 2 * Get(stats, "3PM")

points(stats) == 2 * Get(stats, "2PM") + 3 * Get(stats, "3PM")

\* ------------------------------------------------------------- box score
RECURSIVE ColumnSum(_, _)
ColumnSum(rows, col) ==
  IF rows = << >> THEN 0 ELSE Head(rows)[col] + ColumnSum(Tail(rows), col)

T_TOTALS == <<"T", "O", "T", "A", "L", "S">>

\* mutant of build_df: the totals row appended without the test len(df) > 0
build_df_NoGuard(r) ==
  LET rows == [i \in 1..Len(r) |->
                 [PLAYER |-> r[i].name, NUMBER |-> r[i].number, PTS |-> points(r[i].stats),
                  REB |-> Get(r[i].stats, "REB"), AST |-> Get(r[i].stats, "AST"),
                  2PM |-> Get(r[i].stats, "2PM"), 2PA |-> Get(r[i].stats, "2PA"),
                  3PM |-> Get(r[i].stats, "3PM"), 3PA |-> Get(r[i].stats, "3PA"),
                  STL |-> Get(r[i].stats, "STL"), BLK |-> Get(r[i].stats, "BLK"),
                  TOV |-> Get(r[i].stats, "TOV")]]
      totals == [col \in {"PLAYER", "NUMBER"} \cup {EXPORT_COLUMNS[j] : j \in 1..Len(EXPORT_COLUMNS)} |->
                   IF col = "PLAYER" THEN T_TOTALS
                   ELSE IF col = "NUMBER" THEN << >>
                   ELSE ColumnSum(rows, col)]
  IN Append(rows, totals)

build_df(r) ==
  LET rows == [i \in 1..Len(r) |->
                 LET p == r[i]
                     st == p.stats
                 IN [PLAYER |-> p.name, NUMBER |-> p.number, PTS |-> points(st),
                     REB |-> Get(st, "REB"), AST |-> Get(st, "AST"),
                     2PM |-> Get(st, "2PM"), 2PA |-> Get(st, "2PA"),
                     3PM |-> Get(st, "3PM"), 3PA |-> Get(st, "3PA"),
                     STL |-> Get(st, "STL"), BLK |-> Get(st, "BLK"),
                     TOV |-> Get(st, "TOV")]]
      totals == [col \in {"PLAYER", "NUMBER"} \cup {EXPORT_COLUMNS[j] : j \in 1..Len(EXPORT_COLUMNS)} |->
                   IF col = "PLAYER" THEN T_TOTALS
                   ELSE IF col = "NUMBER" THEN << >>
                   ELSE ColumnSum(rows, col)]
  IN IF Len(rows) > 0 THEN Append(rows, totals) ELSE rows

\* the session state as one record, for the handlers that are functions of it
State == [roster |-> roster, selected |-> selected, action_stack |-> action_stack, msg |-> msg]

\* mutant of ApplyLoop: the delta subtracted, and no clamp at zero
RECURSIVE ApplyLoop_Negate(_, _)
ApplyLoop_Negate(stats, changes) ==
  IF changes = << >> THEN stats
  ELSE LET key == Head(changes)[1]
           delta == Head(changes)[2]
       IN IF key = "PTS"
          THEN ApplyLoop_Negate(stats, Tail(changes))
          ELSE ApplyLoop_Negate(Put(stats, key, Get(stats, key) - delta), Tail(changes))

\* the loop of apply_change over the changes, on one player's stats
RECURSIVE ApplyLoop(_, _)
ApplyLoop(stats, changes) ==
  IF changes = << >> THEN stats
  ELSE LET key == Head(changes)[1]
           delta == Head(changes)[2]
       IN IF key = "PTS"
          THEN ApplyLoop(stats, Tail(changes))
          ELSE ApplyLoop(Put(stats, key, Max(0, Get(stats, key) + delta)), Tail(changes))

apply_change(s, player_idx, changes) ==
  [s EXCEPT !.roster[player_idx + 1].stats = ApplyLoop(@, changes),
            !.action_stack = Append(@, <<player_idx, changes>>)]

\* mutant of ChangesOf: the implied attempt is forgotten
ChangesOf_NoAttempt(stat_key, delta, implies_attempt) == <<<<stat_key, delta>>>>

\* the changes click_button makes of a button's (stat_key, delta, implies_attempt)
ChangesOf(stat_key, delta, implies_attempt) ==
  IF implies_attempt # None
  THEN <<<<stat_key, delta>>, <<implies_attempt[1], delta>>>>
  ELSE <<<<stat_key, delta>>>>

click_button(s, stat_key, delta, implies_attempt) ==
  IF s.selected = None
  THEN [s EXCEPT !.msg = Append(@, "Select a player first.")]
  ELSE apply_change(s, s.selected[1], ChangesOf(stat_key, delta, implies_attempt))

\* the changes of the button at position b of BUTTONS
Changes(b) == ChangesOf(BUTTONS[b].key, BUTTONS[b].delta, BUTTONS[b].implies)

\* mutant of UndoLoop: only the first change of the entry is reversed
UndoLoop_FirstOnly(stats, changes) ==
  IF changes = << >> THEN stats
  ELSE LET key == Head(changes)[1]
           delta == Head(changes)[2]
       IN Put(stats, key, Max(0, Get(stats, key) - delta))

\* mutant of UndoLoop: only the last change of the entry is reversed
UndoLoop_LastOnly(stats, changes) ==
  IF changes = << >> THEN stats
  ELSE LET key == changes[Len(changes)][1]
           delta == changes[Len(changes)][2]
       IN Put(stats, key, Max(0, Get(stats, key) - delta))

\* the loop of undo_last over the changes, on one player's stats
RECURSIVE UndoLoop(_, _)
UndoLoop(stats, changes) ==
  IF changes = << >> THEN stats
  ELSE LET key == Head(changes)[1]
           delta == Head(changes)[2]
       IN UndoLoop(Put(stats, key, Max(0, Get(stats, key) - delta)), Tail(changes))

\* mutant of undo_last: the entry is reversed on the selected player
undo_last_OnSelected(s) ==
  IF s.action_stack = << >>
  THEN [s EXCEPT !.msg = Append(@, "Nothing to undo.")]
  ELSE LET top == s.action_stack[Len(s.action_stack)]
           idx == IF s.selected = None THEN top[1] ELSE s.selected[1]
           changes == top[2]
           popped == [s EXCEPT !.action_stack = SubSeq(@, 1, Len(@) - 1)]
       IN IF idx < 0 \/ idx >= Len(s.roster)
          THEN popped
          ELSE [popped EXCEPT !.roster[idx + 1].stats = UndoLoop(@, changes)]

\* mutant of undo_last: with nothing to undo, the selection is dropped
undo_last_DropsSelection(s) ==
  IF s.action_stack = << >>
  THEN [s EXCEPT !.msg = Append(@, "Nothing to undo."), !.selected = None]
  ELSE LET top == s.action_stack[Len(s.action_stack)]
           popped == [s EXCEPT !.action_stack = SubSeq(@, 1, Len(@) - 1)]
       IN IF top[1] < 0 \/ top[1] >= Len(s.roster)
          THEN popped
          ELSE [popped EXCEPT !.roster[top[1] + 1].stats = UndoLoop(@, top[2])]

\* mutant of undo_last: the oldest entry is taken, action_stack.pop(0)
undo_last_PopsFirst(s) ==
  IF s.action_stack = << >>
  THEN [s EXCEPT !.msg = Append(@, "Nothing to undo.")]
  ELSE LET top == s.action_stack[1]
           popped == [s EXCEPT !.action_stack = Tail(@)]
       IN IF top[1] < 0 \/ top[1] >= Len(s.roster)
          THEN popped
          ELSE [popped EXCEPT !.roster[top[1] + 1].stats = UndoLoop(@, top[2])]

undo_last(s) ==
  IF s.action_stack = << >>
  THEN [s EXCEPT !.msg = Append(@, "Nothing to undo.")]
  ELSE LET top == s.action_stack[Len(s.action_stack)]
           idx == top[1]
           changes == top[2]
           popped == [s EXCEPT !.action_stack = SubSeq(@, 1, Len(@) - 1)]
       IN IF idx < 0 \/ idx >= Len(s.roster)
          THEN popped
          ELSE [popped EXCEPT !.roster[idx + 1].stats = UndoLoop(@, changes)]

\* --------------------------------------------------------- roster handlers
Player(name, number) == [name |-> name, number |-> number, stats |-> blank_stats]

\* mutant of add_player: the new player is put in front of the roster
add_player_InFront(s, name, number) ==
  IF Strip(name) = << >>
  THEN [s EXCEPT !.msg = Append(@, "Please enter a player name.")]
  ELSE [s EXCEPT !.roster = <<Player(Strip(name), Strip(number))>> \o @,
                 !.selected = IF s.selected = None THEN Some(0) ELSE @]

\* "Add to roster": name and number are the contents of the two text inputs
\* (the inputs themselves, emptied at lines 135-136, are not session state here)
add_player(s, name, number) ==
  IF Strip(name) = << >>
  THEN [s EXCEPT !.msg = Append(@, "Please enter a player name.")]
  ELSE [s EXCEPT !.roster = Append(@, Player(Strip(name), Strip(number))),
                 !.selected = IF s.selected = None THEN Some(0) ELSE @]

\* "Add to roster" when Streamlit refuses line 135: the key add_name belongs to
\* a widget made in this run (line 126), and st.session_state raises a
\* StreamlitAPIException on assigning it, which ends the script run after the
\* append; a run with no script context (no server) accepts the assignment
add_player_refused(s, name, number) ==
  IF Strip(name) = << >>
  THEN [s EXCEPT !.msg = Append(@, "Please enter a player name.")]
  ELSE [s EXCEPT !.roster = Append(@, Player(Strip(name), Strip(number)))]

\* mutant of reset_stats: the selection goes back to the first player
reset_stats_SelectsFirst(s) ==
  [s EXCEPT !.roster = [i \in 1..Len(s.roster) |-> [s.roster[i] EXCEPT !.stats = blank_stats]],
            !.selected = IF s.roster = << >> THEN None ELSE Some(0),
            !.action_stack = << >>,
            !.msg = Append(@, "Stats reset.")]

\* mutant of reset_stats: the undo history is kept
reset_stats_KeepHistory(s) ==
  [s EXCEPT !.roster = [i \in 1..Len(s.roster) |-> [s.roster[i] EXCEPT !.stats = blank_stats]],
            !.msg = Append(@, "Stats reset.")]

\* "Reset all stats (keep roster)"
reset_stats(s) ==
  [s EXCEPT !.roster = [i \in 1..Len(s.roster) |-> [s.roster[i] EXCEPT !.stats = blank_stats]],
            !.action_stack = << >>,
            !.msg = Append(@, "Stats reset.")]

\* "Clear roster"
clear_roster(s) ==
  [s EXCEPT !.roster = << >>, !.selected = None, !.action_stack = << >>,
            !.msg = Append(@, "Roster cleared.")]

\* the label of a player in the selectbox
Label(p) ==
  IF p.number # << >> THEN Strip(<<"#">> \o p.number \o <<" ">> \o p.name) ELSE p.name

\* the selectbox: choice is the position of the option the user has chosen
select_player(s, choice) ==
  IF s.roster = << >>
  THEN [s EXCEPT !.msg = Append(@, "Add players in the sidebar to start.")]
  ELSE LET labels == [i \in 1..Len(s.roster) |-> Label(s.roster[i])]
           selected_label == labels[choice + 1]
       IN [s EXCEPT !.selected = Some(IndexOf(labels, selected_label))]

\* list.pop(i) for 0 <= i < len(list)
Pop(list, i) == SubSeq(list, 1, i) \o SubSeq(list, i + 2, Len(list))

\* mutant of remove_player: the undo history is kept
remove_player_KeepHistory(s) ==
  IF s.selected = None THEN s
  ELSE LET rm_idx == s.selected[1]
       IN IF rm_idx >= Len(s.roster)
          THEN [s EXCEPT !.msg = Append(@, "IndexError")]
          ELSE LET rest == Pop(s.roster, rm_idx)
               IN [s EXCEPT !.roster = rest,
                            !.selected = IF Len(rest) = 0 THEN None
                                         ELSE Some(Min(rm_idx, Len(rest) - 1)),
                            !.msg = Append(@, "Player removed.")]

\* mutant of remove_player: roster.pop() without the index
remove_player_PopsLast(s) ==
  IF s.selected = None THEN s
  ELSE LET rm_idx == s.selected[1]
       IN IF rm_idx >= Len(s.roster)
          THEN [s EXCEPT !.msg = Append(@, "IndexError")]
          ELSE LET rest == Pop(s.roster, Len(s.roster) - 1)
               IN [s EXCEPT !.roster = rest,
                            !.action_stack = << >>,
                            !.selected = IF Len(rest) = 0 THEN None
                                         ELSE Some(Min(rm_idx, Len(rest) - 1)),
                            !.msg = Append(@, "Player removed.")]

\* "Remove selected player"
remove_player(s) ==
  IF s.selected = None THEN s
  ELSE LET rm_idx == s.selected[1]
       IN IF rm_idx >= Len(s.roster)
          THEN [s EXCEPT !.msg = Append(@, "IndexError")]
          ELSE LET rest == Pop(s.roster, rm_idx)
               IN [s EXCEPT !.roster = rest,
                            !.action_stack = << >>,
                            !.selected = IF Len(rest) = 0 THEN None
                                         ELSE Some(Min(rm_idx, Len(rest) - 1)),
                            !.msg = Append(@, "Player removed.")]

\* ------------------------------------------------------------ roster import
(***************************************************************************)
(* An uploaded CSV file, tokenised: header is the sequence of its column   *)
(* names, rows the sequence of its data lines, each the sequence of the    *)
(* line's fields (the empty line has none), and quoted the set of the      *)
(* <<line, field>> positions of the fields the file writes in quotes; a    *)
(* field with a line break in it is one of them.  The header is the first  *)
(* line that is not blank; a file without one has the header << >>.        *)
(* pd.read_csv and DataFrame.iterrows are modelled for such files whose    *)
(* column names are distinct and non-empty and whose fields are empty,     *)
(* integers of fewer than 16 digits, or text that reads neither as a       *)
(* decimal number nor as a boolean.                                        *)
(***************************************************************************)
Digits == {"0", "1", "2", "3", "4", "5", "6", "7", "8", "9"}

T_nan == <<"n", "a", "n">>

T_name == <<"n", "a", "m", "e">>

T_number == <<"n", "u", "m", "b", "e", "r">>

T_jersey == <<"j", "e", "r", "s", "e", "y">>

T_jersey_number == T_jersey \o <<"_">> \o T_number

\* fields that read_csv reads as NaN: its default na_values
NaValues ==
  { <<"-", "1", ".", "#", "I", "N", "D">>,
    <<"1", ".", "#", "Q", "N", "A", "N">>,
    <<"1", ".", "#", "I", "N", "D">>,
    <<"-", "1", ".", "#", "Q", "N", "A", "N">>,
    <<"#", "N", "/", "A", " ", "N", "/", "A">>,
    <<"#", "N", "/", "A">>,
    <<"N", "/", "A">>,
    <<"n", "/", "a">>,
    <<"N", "A">>,
    <<"<", "N", "A", ">">>,
    <<"#", "N", "A">>,
    <<"N", "U", "L", "L">>,
    <<"n", "u", "l", "l">>,
    <<"N", "a", "N">>,
    <<"-", "N", "a", "N">>,
    <<"n", "a", "n">>,
    <<"-", "n", "a", "n">>,
    <<"N", "o", "n", "e">>,
    << >> }

IsNA(c) == c \in NaValues

\* the blanks the number parsers of read_csv skip around a number
CSpace == {" ", "\t", "\n", "\r", "\f", ""}

RECURSIVE CLStrip(_)
CLStrip(t) == IF t # << >> /\ Head(t) \in CSpace THEN CLStrip(Tail(t)) ELSE t

RECURSIVE CRStrip(_)
CRStrip(t) ==
  IF t # << >> /\ t[Len(t)] \in CSpace THEN CRStrip(SubSeq(t, 1, Len(t) - 1)) ELSE t

\* the field without the blanks around it
Token(c) == CRStrip(CLStrip(c))

\* the field without the blanks around it and without its sign
Unsigned(c) ==
  IF Token(c) # << >> /\ Head(Token(c)) \in {"+", "-"} THEN Tail(Token(c)) ELSE Token(c)

Negative(c) == Token(c) # << >> /\ Head(Token(c)) = "-"

\* the field reads as an integer: blanks, an optional sign, digits, blanks
IsInt(c) == Unsigned(c) # << >> /\ \A i \in 1..Len(Unsigned(c)) : Unsigned(c)[i] \in Digits

\* digits without their leading zeros
RECURSIVE Digitstr(_)
Digitstr(d) == IF Len(d) > 1 /\ Head(d) = "0" THEN Digitstr(Tail(d)) ELSE d

\* str(int(c))
IntStr(c) ==
  IF Negative(c) /\ Digitstr(Unsigned(c)) # <<"0">>
  THEN <<"-">> \o Digitstr(Unsigned(c))
  ELSE Digitstr(Unsigned(c))

\* str(float(int(c))): read_csv parses the field as an integer also in a
\* column with NaN, and makes the column float64 afterwards
FloatStr(c) == IntStr(c) \o <<".", "0">>

\* read_csv (skip_blank_lines): a line whose characters are only blanks and
\* tabs, or none, is no row; a line that starts a quoted field is a row
BlankLine(csv, i) ==
  \/ csv.rows[i] = << >>
  \/ /\ Len(csv.rows[i]) = 1
     /\ <<i, 1>> \notin csv.quoted
     /\ \A n \in 1..Len(csv.rows[i][1]) : csv.rows[i][1][n] \in {" ", "\t"}

NotBlankLine(csv, i) == ~ BlankLine(csv, i)

\* the data lines from line i on that are not blank
RECURSIVE Rows(_, _)
Rows(csv, i) ==
  IF i > Len(csv.rows) THEN << >>
  ELSE IF NotBlankLine(csv, i) THEN <<csv.rows[i]>> \o Rows(csv, i + 1)
  ELSE Rows(csv, i + 1)

\* read_csv: the frame of the file, one row per data line that is not blank
read_csv(csv) == [header |-> csv.header, rows |-> Rows(csv, 1)]

\* read_csv: the number of fields expected in a row: that of the header, or of
\* the first row if that one is longer
Width(df) ==
  IF df.rows = << >> THEN Len(df.header) ELSE Max(Len(df.header), Len(df.rows[1]))

\* read_csv: the fields the first row has more than the header are the row
\* labels (the index) of the frame, and the columns start behind them
leading_cols(df) == Width(df) - Len(df.header)

\* read_csv: a file without a line that is not blank is an EmptyDataError
\* ("No columns to parse from file")
EmptyDataError(csv) == csv.header = << >>

\* read_csv: a row behind the first one with more fields than expected is a
\* ParserError
ParserError(csv) ==
  \E i \in 2..Len(read_csv(csv).rows) : Len(read_csv(csv).rows[i]) > Width(read_csv(csv))

\* read_csv: the field of row i in column j; a short line is padded
Cell(csv, i, j) ==
  IF j + leading_cols(csv) <= Len(csv.rows[i])
  THEN csv.rows[i][j + leading_cols(csv)]
  ELSE << >>

\* read_csv: the dtype inferred for column j
ColDtype(csv, j) ==
  LET cells == {Cell(csv, i, j) : i \in 1..Len(csv.rows)}
  IN IF cells = {} THEN "object"
     ELSE IF \A c \in cells : IsNA(c) \/ IsInt(c)
          THEN IF \E c \in cells : IsNA(c) THEN "float64" ELSE "int64"
          ELSE "object"

\* iterrows: the dtype of the row Series, common to all columns
RowDtype(csv) ==
  LET dtypes == {ColDtype(csv, j) : j \in 1..Len(csv.header)}
  IN IF "object" \in dtypes THEN "object"
     ELSE IF "float64" \in dtypes THEN "float64" ELSE "int64"

\* str(r.get(col, "")) for the row r at i and the column col at j
StrValue(csv, i, j) ==
  LET c == Cell(csv, i, j)
  IN IF IsNA(c) THEN T_nan
     ELSE IF ColDtype(csv, j) = "object" THEN c
     ELSE IF ColDtype(csv, j) = "float64" \/ RowDtype(csv) = "float64" THEN FloatStr(c)
     ELSE IntStr(c)

\* the first of the candidate column names that is in cols, as a position
RECURSIVE NumberCol(_, _)
NumberCol(cols, cands) ==
  IF cands = << >> THEN None
  ELSE IF \E j \in 1..Len(cols) : cols[j] = Head(cands)
       THEN Some(IndexOf(cols, Head(cands)))
       ELSE NumberCol(cols, Tail(cands))

\* the loop over df_in.iterrows(), from row i on
RECURSIVE NewRoster(_, _, _, _)
NewRoster(csv, name_col, number_col, i) ==
  IF i > Len(csv.rows) THEN << >>
  ELSE LET nm == Strip(StrValue(csv, i, name_col + 1))
           num == IF number_col # None THEN Strip(StrValue(csv, i, number_col[1] + 1))
                  ELSE << >>
           rest == NewRoster(csv, name_col, number_col, i + 1)
       IN IF nm = << >> THEN rest ELSE <<Player(nm, num)>> \o rest

\* mutant of import_roster: the session state is emptied before the header is checked
import_roster_ClearsFirst(s, csv) ==
  LET df_in == read_csv(csv)
      cols == [j \in 1..Len(df_in.header) |-> Strip(Lower(df_in.header[j]))]
      cleared == [s EXCEPT !.roster = << >>, !.selected = None, !.action_stack = << >>]
  IN IF EmptyDataError(csv) \/ ParserError(csv)
     THEN [s EXCEPT !.msg = Append(@, "Could not import CSV")]
     ELSE IF ~ \E j \in 1..Len(cols) : cols[j] = T_name
          THEN [cleared EXCEPT !.msg = Append(@, "CSV must include a 'name' column.")]
          ELSE LET new_roster == NewRoster(df_in, IndexOf(cols, T_name),
                                           NumberCol(cols, <<T_number, T_jersey, T_jersey_number>>), 1)
               IN [s EXCEPT !.roster = new_roster,
                            !.selected = IF new_roster # << >> THEN Some(0) ELSE None,
                            !.action_stack = << >>,
                            !.msg = Append(@, "Imported players.")]

\* "Upload roster CSV" with a file in the uploader
import_roster(s, csv) ==
  IF EmptyDataError(csv) \/ ParserError(csv)
  THEN [s EXCEPT !.msg = Append(@, "Could not import CSV")]
  ELSE LET df_in == read_csv(csv)
           cols == [j \in 1..Len(df_in.header) |-> Strip(Lower(df_in.header[j]))]
       IN IF ~ \E j \in 1..Len(cols) : cols[j] = T_name
          THEN [s EXCEPT !.msg = Append(@, "CSV must include a 'name' column.")]
          ELSE LET name_col == IndexOf(cols, T_name)
                   number_col == NumberCol(cols, <<T_number, T_jersey, T_jersey_number>>)
                   new_roster == NewRoster(df_in, name_col, number_col, 1)
               IN [s EXCEPT !.roster = new_roster,
                            !.selected = IF new_roster # << >> THEN Some(0) ELSE None,
                            !.action_stack = << >>,
                            !.msg = Append(@, "Imported players.")]

\* ------------------------------------------------------------------ inputs
T_A == <<"A">>

T_B == <<"B">>

T_7 == <<"7">>

\* what the user may have typed in "Player name" and "Jersey # (optional)"
AddNames == { <<" ", "\n">>, <<"\t", "A", " ">> }

AddNumbers == { <<"\f", "7", "\r">> }

T_player == <<"p", "l", "a", "y", "e", "r">>

\* the files the user may upload
Uploads ==
  { [header |-> <<T_name, T_number>>, rows |-> << <<T_A, T_7>>, <<T_B, T_7>> >>, quoted |-> {}],
    [header |-> <<T_name>>, rows |-> << <<T_B>> >>, quoted |-> {}],
    [header |-> <<T_player, T_number>>, rows |-> << <<T_A, T_7>> >>, quoted |-> {}],
    [header |-> <<T_number, T_name>>, rows |-> << >>, quoted |-> {}] }

\* more files, for the import handler taken alone
UploadFiles ==
  Uploads \cup
  { [header |-> <<<<" ", "N", "a", "m", "e", " ">>>>, rows |-> << <<T_A>>, <<T_B>> >>, quoted |-> {}],
    [header |-> <<T_jersey, T_name>>, rows |-> << <<T_7, T_A>>, <<T_7, <<" ">>>> >>, quoted |-> {}],
    [header |-> <<T_name, T_number>>, rows |-> << <<T_A>>, << << >>, T_7>> >>, quoted |-> {}],
    [header |-> <<T_name>>, rows |-> << <<T_A>>, <<T_B>>, << << >>, <<"E">> >> >>, quoted |-> {}],
    [header |-> <<T_name, T_jersey_number, T_jersey>>, rows |-> << <<T_A, T_7, <<"8">>>> >>, quoted |-> {}],
    [header |-> <<T_name, T_number>>, rows |-> << <<<<"N", "A">>, <<"0", "7">>>> >>, quoted |-> {}],
    [header |-> <<<<"N", "A", "M", "E">>, <<"N", "u", "m", "b", "e", "r">>>>,
     rows |-> << <<T_B, <<"x">>>>, <<T_A, << >> >> >>, quoted |-> {}],
    [header |-> <<<<" ", "n", "u", "m", "b", "e", "r">>, <<"i", "d">>>>,
     rows |-> << <<T_7, T_7>> >>, quoted |-> {}],
    [header |-> <<T_name, T_number>>, rows |-> << <<T_A, <<"N", "/", "A">>>> >>, quoted |-> {}],
    [header |-> <<T_name>>, rows |-> << <<<<"N", "U", "L", "L">>>>, <<T_B>> >>, quoted |-> {}],
    [header |-> <<T_name, T_number>>, rows |-> << <<T_A, <<" ", "0", "7">>>> >>, quoted |-> {}],
    [header |-> <<T_name, T_number>>, rows |-> << <<T_A, <<" ", "7">>>>, <<T_B, << >> >> >>, quoted |-> {}],
    [header |-> <<T_name, T_number>>, rows |-> << <<T_A, <<"+", "7">>>> >>, quoted |-> {}],
    [header |-> <<T_name, T_number>>, rows |-> << <<T_A, <<"-", "0">>>>, <<T_B, <<"n", "/", "a">>>> >>, quoted |-> {}],
    [header |-> <<T_number, T_name>>, rows |-> << <<<<"-", "0", "7">>, <<"\n", "A", "\f">>>> >>, quoted |-> {<<1, 2>>}],
    [header |-> <<T_name>>, rows |-> << << << >> >>, <<T_B>> >>, quoted |-> {<<1, 1>>}],
    [header |-> <<T_name>>, rows |-> << <<<<" ">>>>, <<T_B>> >>, quoted |-> {<<1, 1>>}],
    [header |-> <<T_name>>, rows |-> << <<<<" ", "\t">>>>, << >>, <<T_A>> >>, quoted |-> {}],
    [header |-> <<T_name>>, rows |-> << << >>, <<T_A, T_7>> >>, quoted |-> {}],
    [header |-> <<T_name>>, rows |-> << <<T_A, T_7>>, <<T_B>>, <<T_7, T_B, <<"x">>>> >>, quoted |-> {}],
    [header |-> <<T_number, T_name>>, rows |-> << <<T_A, T_7, T_B>>, <<T_B, <<"8">>>> >>, quoted |-> {}],
    [header |-> <<T_player>>, rows |-> << <<T_A, T_7>>, <<T_B, T_7>> >>, quoted |-> {}],
    [header |-> <<T_player>>, rows |-> << <<T_A>>, <<T_B, T_7>> >>, quoted |-> {}],
    [header |-> << >>, rows |-> << >>, quoted |-> {}] }

\* --------------------------------------------------------------- the program
(***************************************************************************)
(* Streamlit runs the script from top to bottom once for every user event. *)
(* A button is True only in the run its press has caused; the uploader     *)
(* returns its file in every run as long as it holds one; the selectbox    *)
(* returns the option the user has chosen as long as its options and its   *)
(* index argument are those of the run before, else it is a new widget     *)
(* and returns the option at its index argument.  A step of Spec is one    *)
(* whole run.  The stat counters are unbounded in the program: here a stat *)
(* button is taken only while the counters of the roster sum to at most    *)
(* MaxTotal afterwards, and a player is added only to a roster of fewer    *)
(* than MaxPlayers players.                                                *)
(***************************************************************************)
T_AddPlayers == "Add players in the sidebar to start."

T_SelectAPlayer == "Select a player to enable stat buttons."

\* the state after the first run of the script in a new session
Init ==
  /\ roster = << >>
  /\ selected = None
  /\ action_stack = << >>
  /\ msg = <<T_AddPlayers, T_SelectAPlayer>>
  /\ event = [op |-> "start", arg |-> 0]
  /\ pre = None
  /\ snaps = << >>
  /\ upload = None
  /\ dataframe = Some(build_df(<< >>))
  /\ selectbox = None

\* the state a run starts from: no message shown yet in this run
Fresh == [State EXCEPT !.msg = << >>]

Install(s) ==
  /\ roster' = s.roster
  /\ selected' = s.selected
  /\ action_stack' = s.action_stack
  /\ msg' = s.msg

\* the message m is among the messages msgs
Said(msgs, m) == \E i \in 1..Len(msgs) : msgs[i] = m

\* the sum of all counters of all players
SumAll(r) ==
  LET RECURSIVE SumKeys(_, _)
      SumKeys(stats, keys) ==
        IF keys = {} THEN 0
        ELSE LET k == CHOOSE x \in keys : TRUE
             IN stats[k] + SumKeys(stats, keys \ {k})
      RECURSIVE SumPlayers(_)
      SumPlayers(i) ==
        IF i > Len(r) THEN 0
        ELSE SumKeys(r[i].stats, DOMAIN r[i].stats) + SumPlayers(i + 1)
  IN SumPlayers(1)

\* lines 128-138, for the user event ev
AddStep(s, ev) ==
  IF ev.op # "add" THEN s
  ELSE IF ev.arg.refused THEN add_player_refused(s, ev.arg.name, ev.arg.number)
  ELSE add_player(s, ev.arg.name, ev.arg.number)

\* the run ends at line 135
Stopped(ev) == ev.op = "add" /\ ev.arg.refused /\ Strip(ev.arg.name) # << >>

\* line 149: what the uploader returns in this run
Uploaded(ev) ==
  IF ev.op = "upload" THEN Some(ev.arg)
  ELSE IF ev.op = "unload" THEN None
  ELSE upload

\* lines 150-177
ImportStep(s, ev) == IF Uploaded(ev) # None THEN import_roster(s, Uploaded(ev)[1]) ELSE s

\* lines 180-184
ResetStep(s, ev) == IF ev.op = "reset" THEN reset_stats(s) ELSE s

\* lines 186-190
ClearStep(s, ev) == IF ev.op = "clear" THEN clear_roster(s) ELSE s

\* the session state where the import starts, line 149
AtImport(ev) == AddStep(Fresh, ev)

\* the session state where the roster actions start, line 179
AtRosterActions(ev) == ImportStep(AtImport(ev), ev)

\* the session state after the sidebar, lines 121-190
Sidebar(ev) == ClearStep(ResetStep(AtRosterActions(ev), ev), ev)

\* lines 200-209: the options of the selectbox and its index argument
Options(s) == [i \in 1..Len(s.roster) |-> Label(s.roster[i])]

current_idx(s) ==
  IF s.selected = None \/ (s.selected # None /\ s.selected[1] >= Len(s.roster))
  THEN 0 ELSE s.selected[1]

\* lines 211-215: the selectbox this run makes, with the position of the
\* option it returns
Selectbox(s, ev) ==
  IF s.roster = << >> THEN None
  ELSE LET same == /\ selectbox # None
                   /\ selectbox[1].options = Options(s)
                   /\ selectbox[1].index = current_idx(s)
       IN Some([options |-> Options(s),
                index |-> current_idx(s),
                value |-> IF same /\ ev.op = "select" THEN ev.arg
                          ELSE IF same THEN selectbox[1].value
                          ELSE current_idx(s)])

\* lines 198-217
SelectStep(s, ev) ==
  IF s.roster = << >> THEN select_player(s, 0)
  ELSE select_player(s, Selectbox(s, ev)[1].value)

\* lines 220-229: the button exists only below a selectbox
RemoveStep(s, ev) == IF ev.op = "remove" /\ s.roster # << >> THEN remove_player(s) ELSE s

\* lines 234-235
UndoStep(s, ev) == IF ev.op = "undo" THEN undo_last(s) ELSE s

\* the session state after line 217, where the remove and the undo button are
AtButtons(ev) == SelectStep(Sidebar(ev), ev)

\* the session state at line 237, where the table is built, and at line 251
ColA(ev) == UndoStep(RemoveStep(AtButtons(ev), ev), ev)

\* lines 251-262: the buttons exist only with a selected player
ClickStep(s, ev) ==
  IF s.selected = None THEN [s EXCEPT !.msg = Append(@, T_SelectAPlayer)]
  ELSE IF ev.op = "click"
       THEN click_button(s, BUTTONS[ev.arg].key, BUTTONS[ev.arg].delta, BUTTONS[ev.arg].implies)
       ELSE s

\* lines 237-267, from the session state at line 237
FromTable(side, colA, ev) ==
  [s |-> ClickStep(colA, ev),
   upload |-> Uploaded(ev),
   df |-> Some(build_df(colA.roster)),
   selectbox |-> Selectbox(side, ev),
   side |-> side,
   colA |-> colA]

\* lines 193-267, from the session state after the sidebar
FromSidebar(side, ev) ==
  FromTable(side, UndoStep(RemoveStep(SelectStep(side, ev), ev), ev), ev)

\* one run of the script for the user event ev, from the session state: the
\* session state, the file in the uploader, the table and the selectbox at the
\* end of the run, with the session state after the sidebar and at line 237
Script(ev) ==
  IF Stopped(ev)
  THEN [s |-> AddStep(Fresh, ev), upload |-> upload, df |-> None, selectbox |-> selectbox,
        side |-> AddStep(Fresh, ev), colA |-> AddStep(Fresh, ev)]
  ELSE FromSidebar(Sidebar(ev), ev)

\* the history variable snaps after the run: a successful import, a reset, a
\* clear and a removal forget the stat actions before them, an undo takes the
\* last one back, a stat action is recorded with its player and the counters
\* the player had
Snaps(run, ev) ==
  LET kept == IF \/ Uploaded(ev) # None /\ Said(run.side.msg, "Imported players.")
                 \/ ev.op \in {"reset", "clear"}
                 \/ Said(run.s.msg, "Player removed.")
              THEN << >> ELSE snaps
  IN IF Stopped(ev) THEN snaps
     ELSE IF ev.op = "undo" /\ kept # << >> THEN SubSeq(kept, 1, Len(kept) - 1)
     ELSE IF ev.op = "click" /\ run.colA.selected # None
          THEN Append(kept, run.colA.roster[run.colA.selected[1] + 1])
          ELSE kept

\* the history variable pre after the run
Pre(run, ev) ==
  IF ev.op = "click" /\ run.colA.selected # None
  THEN Some([roster |-> run.colA.roster, action_stack |-> run.colA.action_stack])
  ELSE IF ev.op = "undo" /\ event.op = "click" THEN pre
  ELSE None

Run(ev) ==
  \E run \in {Script(ev)} :
    /\ Install(run.s)
    /\ upload' = run.upload
    /\ dataframe' = run.df
    /\ selectbox' = run.selectbox
    /\ event' = ev
    /\ pre' = Pre(run, ev)
    /\ snaps' = Snaps(run, ev)

\* the file the user puts into the uploader in a run of the script
RunUploads == { [header |-> <<T_name>>, rows |-> << <<T_B>> >>, quoted |-> {}] }

\* the page below the add form is on display: the last run has reached its end
Displayed == dataframe # None

\* "Add to roster"; the add form stays on display when a run stops at line 135.
\* Whether line 135 is refused matters only when it is reached.
RunAdd ==
  \E name \in AddNames, number \in AddNumbers, refused \in BOOLEAN :
    /\ Strip(name) # << >> => Len(roster) < MaxPlayers
    /\ Strip(name) = << >> => ~ refused
    /\ Run([op |-> "add", arg |-> [name |-> name, number |-> number, refused |-> refused]])

\* a run in which no button is pressed, as after editing a text input
RunRerun ==
  \E ev \in {[op |-> "rerun", arg |-> 0]} : Run(ev)

\* a file is put into the uploader
RunUpload ==
  \E csv \in RunUploads :
    /\ Displayed
    /\ Run([op |-> "upload", arg |-> csv])

\* the file is taken out of the uploader
RunUnload ==
  /\ Displayed
  /\ upload # None
  /\ Run([op |-> "unload", arg |-> 0])

\* "Reset all stats (keep roster)"; the event records the sum of the counters
\* that are reset
RunReset ==
  /\ Displayed
  /\ Run([op |-> "reset",
          arg |-> SumAll(AtRosterActions([op |-> "reset", arg |-> 0]).roster)])

\* "Clear roster"
RunClear == Displayed /\ Run([op |-> "clear", arg |-> 0])

\* the user chooses the option at a position of the selectbox on display
RunSelect ==
  \E choice \in 0..(MaxPlayers - 1) :
    /\ Displayed
    /\ selectbox # None
    /\ choice < Len(selectbox[1].options)
    /\ Run([op |-> "select", arg |-> choice])

\* "Remove selected player"
RunRemove ==
  /\ Displayed
  /\ selectbox # None
  /\ Run([op |-> "remove", arg |-> 0])

\* "Undo last action"; the event records the player index of the entry that is
\* undone (-1 with an empty history) and how many entries the undos in a row
\* have undone so far
RunUndo ==
  /\ Displayed
  /\ \E stack \in {AtButtons([op |-> "undo", arg |-> 0]).action_stack} :
       Run([op |-> "undo",
            arg |-> [idx |-> IF stack = << >> THEN -1 ELSE stack[Len(stack)][1],
                     run |-> (IF event.op = "undo" THEN event.arg.run ELSE 0)
                             + (IF stack = << >> THEN 0 ELSE 1)]])

\* a stat button; the buttons are on display when the last run had a selected
\* player; the counters the click adds to stay within MaxTotal
RunClick ==
  \E b \in 1..Len(BUTTONS) :
    /\ Displayed
    /\ selected # None
    /\ SumAll(ColA([op |-> "click", arg |-> b]).roster) + Len(Changes(b)) <= MaxTotal
    /\ Run([op |-> "click", arg |-> b])

Next ==
  \/ RunAdd
  \/ RunRerun
  \/ RunUpload
  \/ RunUnload
  \/ RunReset
  \/ RunClear
  \/ RunSelect
  \/ RunRemove
  \/ RunUndo
  \/ RunClick

Spec == Init /\ [][Next]_vars

\* ------------------------------------------------- the import handler alone
\* session states the program reaches by adding two players, selecting one of
\* them and clicking a stat button, from which a file is uploaded
PreStates ==
  LET s0 == [roster |-> << >>, selected |-> None, action_stack |-> << >>, msg |-> << >>]
      s1 == add_player(s0, <<" ", "A", " ">>, <<"7", " ">>)
      s2 == add_player(s1, <<"B">>, << >>)
      picked == {select_player(s2, c) : c \in 0..1}
      clicked == {click_button(s, BUTTONS[b].key, BUTTONS[b].delta, BUTTONS[b].implies) :
                    s \in picked \cup {s1}, b \in 1..Len(BUTTONS)}
  IN {s0, s1, s2} \cup picked \cup clicked

ImportInit ==
  \E s \in PreStates :
    /\ roster = s.roster
    /\ selected = s.selected
    /\ action_stack = s.action_stack
    /\ msg = s.msg
    /\ event = [op |-> "start", arg |-> 0]
    /\ pre = None
    /\ snaps = << >>
    /\ upload = None
    /\ dataframe = Some(build_df(<< >>))
    /\ selectbox = None

\* lines 150-177 alone, on a file that has just been put into the uploader
UploadFile ==
  \E csv \in UploadFiles :
    /\ Install(import_roster(Fresh, csv))
    /\ event' = [op |-> "import", arg |-> csv]
    /\ UNCHANGED <<pre, snaps, upload, dataframe, selectbox>>

ImportNext == UploadFile

ImportSpec == ImportInit /\ [][ImportNext]_vars

\* ------------------------------------------------------------------ claims
StatKeys == {"REB", "AST", "2PM", "2PA", "3PM", "3PA", "STL", "BLK", "TOV"}

Players == 1..Len(roster)

\* C1: in every reachable state every player stores exactly the nine counters
\* REB, AST, 2PM, 2PA, 3PM, 3PA, STL, BLK, TOV and each is an integer >= 0.
C1_CountersNonNegative ==
  \A i \in Players :
    /\ DOMAIN roster[i].stats = StatKeys
    /\ \A k \in StatKeys : roster[i].stats[k] \in Nat

\* an undo has just reversed a stat action while another counter is positive
C1_Witness ==
  /\ event.op = "undo"
  /\ pre # None
  /\ \E i \in Players, k \in StatKeys : roster[i].stats[k] > 0

\* the counters a button is to increase, by its label
C2_Touched(label) ==
  CASE label = "2PM" -> <<"2PM", "2PA">>
    [] label = "3PM" -> <<"3PM", "3PA">>
    [] label = "2P Miss" -> <<"2PA">>
    [] label = "3P Miss" -> <<"3PA">>
    [] OTHER -> <<label>>

C2_Deltas(label) == [n \in 1..Len(C2_Touched(label)) |-> <<C2_Touched(label)[n], 1>>]

\* the step takes the session state s, in which the stat button b is pressed,
\* to the session state the button is to leave
C2_Effect(s, b) ==
  LET i == s.selected[1] + 1
      touched == {C2_Touched(BUTTONS[b].label)[n] : n \in 1..Len(C2_Touched(BUTTONS[b].label))}
  IN /\ selected' = s.selected
     /\ Len(roster') = Len(s.roster)
     /\ \A j \in 1..Len(s.roster) : j # i => roster'[j] = s.roster[j]
     /\ roster'[i].name = s.roster[i].name
     /\ roster'[i].number = s.roster[i].number
     /\ \A k \in StatKeys :
          roster'[i].stats[k] = s.roster[i].stats[k] + (IF k \in touched THEN 1 ELSE 0)
     /\ action_stack' = Append(s.action_stack, <<s.selected[1], C2_Deltas(BUTTONS[b].label)>>)

\* C2: a stat action increases by exactly 1 the make and the attempt counter
\* (2PM, 3PM) or only its primary counter (every other button) of the selected
\* player, changes nothing else, and pushes exactly one entry (selected index,
\* applied deltas) onto the undo history.  The stat action starts from the
\* session state the run has at the stat buttons (line 251).
C2_StatActionIsOneCompoundMutation ==
  [][event'.op = "click" =>
       \A s \in {ColA(event')} : s.selected # None => C2_Effect(s, event'.arg)]_vars

\* a made two-pointer has just been recorded for the second player of the roster
C2_Witness ==
  /\ event.op = "click"
  /\ event.arg = 1
  /\ selected = Some(1)
  /\ roster[2].stats["2PM"] = 1
  /\ roster[2].stats["2PA"] = 1
  /\ action_stack[Len(action_stack)] = <<1, <<<<"2PM", 1>>, <<"2PA", 1>>>>>>

\* C3: a stat action immediately followed by undo restores every counter of
\* every player and the undo history to what they were before the action
\* (pre holds the roster and the history the stat action started from).
C3_ApplyThenUndoIsIdentity ==
  (event.op = "undo" /\ pre # None) =>
    /\ roster = pre[1].roster
    /\ action_stack = pre[1].action_stack

\* an undo right after a stat action, with an older entry left in the history
C3_Witness ==
  /\ event.op = "undo"
  /\ pre # None
  /\ action_stack # << >>
  /\ \E i \in Players, k \in StatKeys : roster[i].stats[k] > 0

\* C4: undo with an empty undo history changes nothing: the roster, the
\* counters, the selected index and the (empty) history stay as they are.
\* The undo starts from the session state the run has at the undo button
\* (line 234).
C4_UndoOnEmptyIsNoOp ==
  [][event'.op = "undo" =>
       \A s \in {AtButtons(event')} :
         s.action_stack = << >> =>
           /\ roster' = s.roster
           /\ selected' = s.selected
           /\ action_stack' = << >>
           /\ Said(msg', "Nothing to undo.")]_vars

\* undo found nothing to undo while a player is selected and has a counter > 0
C4_Witness ==
  /\ event.op = "undo"
  /\ Said(msg, "Nothing to undo.")
  /\ selected # None
  /\ \E i \in Players, k \in StatKeys : roster[i].stats[k] > 0

\* the last event removed a player, reset the stats, cleared the roster or
\* imported a roster
C5_Cleared(ev, m) ==
  \/ ev.op = "remove" /\ Said(m, "Player removed.")
  \/ ev.op = "reset" /\ Said(m, "Stats reset.")
  \/ ev.op = "clear" /\ Said(m, "Roster cleared.")
  \/ ev.op = "upload" /\ Said(m, "Imported players.")

\* C5: right after a removal, a reset, a clear or a successful import the undo
\* history is empty, and an undo issued next finds nothing to undo and changes
\* no counter of any player.
C5_ClearingEmptiesHistory ==
  [][/\ C5_Cleared(event', msg') => action_stack' = << >>
     /\ (C5_Cleared(event, msg) /\ event'.op = "undo") =>
          \A s \in {AtButtons(event')} :
            /\ s.action_stack = << >>
            /\ Said(msg', "Nothing to undo.")
            /\ roster' = s.roster]_vars

\* a player was removed while the remaining player has a counter > 0
C5_Witness ==
  /\ C5_Cleared(event, msg)
  /\ event.op = "remove"
  /\ action_stack = << >>
  /\ \E i \in Players, k \in StatKeys : roster[i].stats[k] > 0

\* C6: the undo history is the sequence, in application order, of the applied
\* and not yet undone mutations: a stat action appends one entry, which holds
\* the player index and the deltas by which that player's counters changed; an
\* undo on a non-empty history removes exactly the last entry; every other
\* operation leaves the history as it is or empties it.
C6_HistoryIsAppliedNotUndone ==
  [][/\ event'.op = "click" =>
          \A s \in {ColA(event')} :
            s.selected # None =>
              LET top == action_stack'[Len(action_stack')]
                  i == top[1] + 1
              IN /\ Len(action_stack') = Len(s.action_stack) + 1
                 /\ SubSeq(action_stack', 1, Len(s.action_stack)) = s.action_stack
                 /\ top[1] = s.selected[1]
                 /\ \A k \in StatKeys :
                      roster'[i].stats[k] - s.roster[i].stats[k] =
                        Cardinality({n \in 1..Len(top[2]) : top[2][n] = <<k, 1>>})
                 /\ \A n \in 1..Len(top[2]) : top[2][n][1] \in StatKeys /\ top[2][n][2] = 1
     /\ event'.op = "undo" =>
          \A s \in {AtButtons(event')} :
            IF s.action_stack # << >>
            THEN action_stack' = SubSeq(s.action_stack, 1, Len(s.action_stack) - 1)
            ELSE action_stack' = << >>
     /\ event'.op \notin {"click", "undo"} => action_stack' \in {action_stack, << >>}]_vars

\* an undo has removed the newer of two entries
C6_Witness ==
  /\ event.op = "undo"
  /\ ~ Said(msg, "Nothing to undo.")
  /\ Len(action_stack) = 1

\* the header has a column that is 'name' once trimmed, whatever its case
C7_HasNameColumn(header) == \E j \in 1..Len(header) : Strip(Lower(header[j])) = T_name

\* C7: an import whose header has no 'name' column reports an error and
\* leaves the roster, the counters, the selected index and the undo history
\* unchanged.
C7_NoNameColumnChangesNothing ==
  [][(event'.op = "import" /\ ~ C7_HasNameColumn(event'.arg.header)) =>
       /\ msg' \in {<<"CSV must include a 'name' column.">>, <<"Could not import CSV">>}
       /\ roster' = roster
       /\ selected' = selected
       /\ action_stack' = action_stack]_vars

\* a file without a 'name' column was refused with counters and history present
C7_Witness ==
  /\ event.op = "import"
  /\ ~ C7_HasNameColumn(event.arg.header)
  /\ msg = <<"CSV must include a 'name' column.">>
  /\ action_stack # << >>
  /\ \E i \in Players, k \in StatKeys : roster[i].stats[k] > 0

\* the field of a data row in the column at position j, empty when missing
C8_Field(row, j) == IF j >= 1 /\ j <= Len(row) THEN row[j] ELSE << >>

\* the position of the first column named `want`, 0 when there is none
C8_Column(header, want) ==
  IF \E j \in 1..Len(header) : Strip(Lower(header[j])) = want
  THEN CHOOSE j \in 1..Len(header) :
         /\ Strip(Lower(header[j])) = want
         /\ \A h \in 1..(j - 1) : Strip(Lower(header[h])) # want
  ELSE 0

C8_NumberColumn(header) ==
  IF C8_Column(header, T_number) # 0 THEN C8_Column(header, T_number)
  ELSE IF C8_Column(header, T_jersey) # 0 THEN C8_Column(header, T_jersey)
  ELSE C8_Column(header, T_jersey_number)

\* the data rows whose trimmed name field is not empty, in row order
RECURSIVE C8_NamedRows(_, _)
C8_NamedRows(rows, nameCol) ==
  IF rows = << >> THEN << >>
  ELSE IF Strip(C8_Field(Head(rows), nameCol)) = << >>
       THEN C8_NamedRows(Tail(rows), nameCol)
       ELSE <<Head(rows)>> \o C8_NamedRows(Tail(rows), nameCol)

\* C8: a successful import installs exactly one player per data row whose
\* trimmed name field is non-empty, in row order, named by that field and with
\* all nine counters zero; a row with a blank or missing name produces no
\* player; a player whose number field is absent has the empty number.
C8_ImportInstallsNamedRows ==
  [][(event'.op = "import" /\ Said(msg', "Imported players.")) =>
       LET csv == event'.arg
           nameCol == C8_Column(csv.header, T_name)
           numCol == C8_NumberColumn(csv.header)
           named == C8_NamedRows(csv.rows, nameCol)
       IN /\ Len(roster') = Len(named)
          /\ \A i \in 1..Len(named) :
               /\ roster'[i].name = Strip(C8_Field(named[i], nameCol))
               /\ roster'[i].stats = [k \in StatKeys |-> 0]
               /\ C8_Field(named[i], numCol) = << >> => roster'[i].number = << >>]_vars

\* the sum of f[1] .. f[n]
RECURSIVE SumTo(_, _)
SumTo(f, n) == IF n = 0 THEN 0 ELSE f[n] + SumTo(f, n - 1)

\* C9: the box score has one row per player, in roster order, whose PTS is
\* 2*2PM + 3*3PM of the player's counters and whose nine other numeric columns
\* are the player's counters; PTS is not among the stored counters.
C9_ProjectionRows ==
  LET df == build_df(roster)
  IN /\ Len(df) >= Len(roster)
     /\ \A i \in Players :
          /\ df[i].PLAYER = roster[i].name
          /\ df[i].NUMBER = roster[i].number
          /\ df[i].PTS = 2 * roster[i].stats["2PM"] + 3 * roster[i].stats["3PM"]
          /\ \A k \in StatKeys : df[i][k] = roster[i].stats[k]
          /\ "PTS" \notin DOMAIN roster[i].stats

\* the second of two players has made a three-pointer, shown as 3 points
C9_Witness ==
  /\ Len(roster) = 2
  /\ roster[2].stats["3PM"] = 1
  /\ build_df(roster)[2].PTS = 3
  /\ build_df(roster)[1].PTS = 0

\* C10: with a non-empty roster the box score ends with one TOTALS row, after
\* the player rows, whose numeric columns are the sums of the player rows'
\* columns, so that its PTS is 2*sum(2PM) + 3*sum(3PM); with an empty roster
\* the box score has no row.
C10_TotalsRow ==
  LET df == build_df(roster)
      n == Len(roster)
  IN IF n = 0 THEN df = << >>
     ELSE /\ Len(df) = n + 1
          /\ df[n + 1].PLAYER = T_TOTALS
          /\ \A c \in 1..Len(EXPORT_COLUMNS) :
               df[n + 1][EXPORT_COLUMNS[c]] =
                 SumTo([i \in 1..n |-> df[i][EXPORT_COLUMNS[c]]], n)
          /\ df[n + 1].PTS = 2 * SumTo([i \in 1..n |-> roster[i].stats["2PM"]], n)
                             + 3 * SumTo([i \in 1..n |-> roster[i].stats["3PM"]], n)

\* two players with a counter > 0 each, summed in the TOTALS row
C10_Witness ==
  /\ Len(roster) = 2
  /\ roster[1].stats["2PA"] = 1
  /\ roster[2].stats["REB"] = 1
  /\ Len(build_df(roster)) = 3
  /\ build_df(roster)[3]["2PA"] = 1
  /\ build_df(roster)[3].REB = 1


\* C12: "Reset all stats" sets every counter of every player to zero and
\* leaves the length of the roster, the order of the players, every name and
\* number, and the selected index as they were.  The reset starts from the
\* session state the run has at the reset button (line 180) and ends in the
\* session state at the end of the sidebar; the rest of the run leaves the
\* roster as the reset has left it.
C12_ResetZeroesCountersOnly ==
  [][event'.op = "reset" =>
       \A s \in {AtRosterActions(event')}, t \in {Sidebar(event')} :
         /\ Len(roster') = Len(s.roster)
         /\ \A i \in 1..Len(s.roster) :
              /\ roster'[i].name = s.roster[i].name
              /\ roster'[i].number = s.roster[i].number
              /\ \A k \in StatKeys : Get(roster'[i].stats, k) = 0
         /\ t.roster = roster'
         /\ t.selected = s.selected]_vars

\* a reset of two different players who had counters above zero, with the
\* second player selected
C12_Witness ==
  /\ event.op = "reset"
  /\ event.arg > 0
  /\ Len(roster) = 2
  /\ selected = Some(1)
  /\ roster[1].name # roster[2].name

\* C20: "Remove selected player" deletes exactly the player at the selected
\* index: the roster is one shorter, the other players keep their order, names,
\* numbers and counters, and the selected index becomes None if the roster is
\* now empty and min(removed index, new length - 1) otherwise.  The selected
\* index is the one the session state has at the remove button (line 220).
C20_RemoveDeletesSelectedOnly ==
  [][event'.op = "remove" =>
       \A s \in {AtButtons(event')} :
         s.roster # << >> =>
           LET rm == s.selected[1]
           IN /\ s.selected # None
              /\ rm >= 0 /\ rm < Len(s.roster)
              /\ Len(roster') = Len(s.roster) - 1
              /\ \A j \in 1..rm : roster'[j] = s.roster[j]
              /\ \A j \in (rm + 1)..Len(roster') : roster'[j] = s.roster[j + 1]
              /\ selected' = IF Len(roster') = 0 THEN None
                             ELSE Some(Min(rm, Len(roster') - 1))]_vars

\* the first of two different players has just been removed while the player
\* who stays had a counter above zero
C20_Witness ==
  /\ event.op = "remove"
  /\ Said(msg, "Player removed.")
  /\ Len(roster) = 1
  /\ roster[1].name = T_A
  /\ selected = Some(0)
  /\ \E k \in StatKeys : roster[1].stats[k] > 0


\* how many changes of an undo entry name the counter k
C13_Times(changes, k) == Cardinality({n \in 1..Len(changes) : changes[n][1] = k})

\* C13: an undo with a non-empty history reverses exactly the most recent
\* action that is not undone yet: only the player whose index the top entry
\* records (selected or not) has counters decreased, each by 1 for every time
\* the entry names it; the history loses exactly its last entry; every other
\* counter, the roster and the selection stay; and the counters of that player
\* are again what they were before the action, so that k undos in a row bring
\* back the counters held after the first n - k actions.  The undo starts from
\* the session state the run has at the undo button (line 234).
C13_UndoReversesTopEntryOnly ==
  [][event'.op = "undo" =>
       \A s \in {AtButtons(event')} :
         s.action_stack # << >> =>
           LET top == s.action_stack[Len(s.action_stack)]
               i == top[1] + 1
           IN /\ i \in 1..Len(s.roster)
              /\ Len(roster') = Len(s.roster)
              /\ \A j \in 1..Len(s.roster) : j # i => roster'[j] = s.roster[j]
              /\ roster'[i].name = s.roster[i].name
              /\ roster'[i].number = s.roster[i].number
              /\ \A k \in StatKeys :
                   roster'[i].stats[k] = s.roster[i].stats[k] - C13_Times(top[2], k)
              /\ action_stack' = SubSeq(s.action_stack, 1, Len(s.action_stack) - 1)
              /\ selected' = s.selected
              /\ snaps # << >>
              /\ roster'[i].stats = snaps[Len(snaps)].stats]_vars

\* the second undo in a row has reversed an action of the first player while
\* the second player is selected
C13_Witness ==
  /\ event.op = "undo"
  /\ event.arg.run = 2
  /\ event.arg.idx = 0
  /\ selected = Some(1)
  /\ action_stack = << >>

\* C14: every entry of the undo history records an index i with
\* 0 <= i < length of the roster, and while the entry is in the history the
\* player at that index is the player the entry was recorded for (snaps holds
\* that player, with the name and the number it had), so undo never finds an
\* index out of range.
C14_HistoryIndexesStayValid ==
  [][/\ Len(snaps') = Len(action_stack')
     /\ \A n \in 1..Len(action_stack') :
          /\ action_stack'[n][1] >= 0 /\ action_stack'[n][1] < Len(roster')
          /\ roster'[action_stack'[n][1] + 1].name = snaps'[n].name
          /\ roster'[action_stack'[n][1] + 1].number = snaps'[n].number
     /\ event'.op = "undo" =>
          \A s \in {AtButtons(event')} :
            s.action_stack # << >> =>
              s.action_stack[Len(s.action_stack)][1] + 1 \in 1..Len(s.roster)]_vars

\* a player has been added behind another one while the history holds an
\* entry for that one
C14_Witness ==
  /\ event.op = "add"
  /\ Len(roster) = 2
  /\ roster[1].number # roster[2].number
  /\ action_stack # << >>

\* the number of undo entries for the player at position i that name counter k
C15_Entries(i, k) ==
  Cardinality({n \in 1..Len(action_stack) :
                 /\ action_stack[n][1] = i - 1
                 /\ C13_Times(action_stack[n][2], k) > 0})

\* C15: for every player and counter, the stored counter is at least the
\* number of undo entries of that player that name the counter; so the counters
\* the top entry names are at least 1 and max(0, old - delta) in undo returns
\* old - delta.
C15_CountersCoverHistory ==
  /\ \A i \in Players, k \in StatKeys : Get(roster[i].stats, k) >= C15_Entries(i, k)
  /\ action_stack # << >> =>
       LET top == action_stack[Len(action_stack)]
       IN \A n \in 1..Len(top[2]) :
            top[1] + 1 \in Players =>
              Get(roster[top[1] + 1].stats, top[2][n][1]) - top[2][n][2] >= 0

\* after an undo, one entry is left and its counter stands exactly at 1
C15_Witness ==
  /\ event.op = "undo"
  /\ Len(action_stack) = 1
  /\ \E i \in Players, k \in StatKeys :
       C15_Entries(i, k) = 1 /\ roster[i].stats[k] = 1

\* C16: in every reachable state every player has 2PA >= 2PM and 3PA >= 3PM.
C16_AttemptsCoverMakes ==
  \A i \in Players :
    /\ Get(roster[i].stats, "2PA") >= Get(roster[i].stats, "2PM")
    /\ Get(roster[i].stats, "3PA") >= Get(roster[i].stats, "3PM")

\* a made three-pointer has just been recorded: makes equal attempts
C16_Witness ==
  /\ event.op = "click"
  /\ BUTTONS[event.arg].key = "3PM"
  /\ \E i \in Players : roster[i].stats["3PA"] = 1 /\ roster[i].stats["3PM"] = 1


\* C17: after every operation the selected index is None exactly when the
\* roster is empty, and otherwise 0 <= selected < length of the roster.
C17_SelectedIffRosterNonEmpty ==
  /\ selected = None <=> roster = << >>
  /\ selected # None => (selected[1] >= 0 /\ selected[1] < Len(roster))


\* C18: choosing the option at position i of the selectbox makes i the
\* selected index, for every position i, also when several players have the
\* same label.
C18_ChoiceSelectsItsPosition ==
  [][event'.op = "select" => selected' = Some(event'.arg)]_vars


\* C11: the box score table a script run displays is the projection of the
\* counters as they are after the mutation of the event the run handles, for a
\* stat button as for undo, remove, reset, clear, add and import.
C11_TableShowsCountersAfterEvent ==
  dataframe # None => dataframe[1] = build_df(roster)

\* C19: an import takes effect once per uploaded file: in a run for a later
\* event, with the same file still in the uploader, a run without a button or
\* a choice in the selectbox leaves roster and history as they are, a stat
\* button adds its deltas and one history entry to them, an undo takes one
\* entry and its deltas away, an add makes the roster one longer and a remove
\* one shorter.
C19_ImportAppliedOncePerFile ==
  [][(upload # None /\ upload' = upload /\ event'.op # "upload") =>
       /\ event'.op \in {"rerun", "select"} =>
            (roster' = roster /\ action_stack' = action_stack)
       /\ event'.op = "click" =>
            /\ Len(action_stack') = Len(action_stack) + 1
            /\ SumAll(roster') = SumAll(roster) + Len(Changes(event'.arg))
       /\ (event'.op = "undo" /\ action_stack # << >>) =>
            /\ Len(action_stack') = Len(action_stack) - 1
            /\ SumAll(roster') =
                 SumAll(roster) - Len(action_stack[Len(action_stack)][2])
       /\ (event'.op = "add" /\ Strip(event'.arg.name) # << >>) =>
            /\ Len(roster') = Len(roster) + 1
            /\ SubSeq(roster', 1, Len(roster)) = roster
       /\ event'.op = "remove" => Len(roster') = Len(roster) - 1]_vars

====
